---- MODULE Spec2Model ----
(***************************************************************************)
(* Model of Sync-Folders (src/src/main.py): sync_directory mirrors a       *)
(* source directory onto a target directory, verify_sync reports whether   *)
(* two directories are in sync.                                            *)
(*                                                                         *)
(* The filesystem is one tree of absolute paths; source_dir and target_dir *)
(* are two paths in it, so that they may be disjoint, nested or equal.     *)
(* A path is a sequence of names.  Modification times are counted in       *)
(* units of EPSILON (0.1 s).  File contents are opaque to the program,     *)
(* which only copies them: every initial file carries a content of its     *)
(* own, named by the path the file starts at.                              *)
(***************************************************************************)
EXTENDS Integers, Sequences, FiniteSets, TLC

VARIABLES
    fs,                  \* the filesystem: existing path -> entry
    source_dir,          \* argument source_dir of the program
    target_dir,          \* argument target_dir of the program
    pc,                  \* position of the program: idle, asked, copy, delete, done, raised
    user_consent,        \* the line read by input() in the current run
    source_relative_fps, \* relative paths collected by the source walk
    walk,                \* state of the rglob generator being iterated
    out,                 \* lines printed by the current run
    err,                 \* exception propagated out of sync_directory, or "none"
    copy_errors,         \* exception classes raised by shutil.copy2 in the current run
    faults,              \* I/O failures the environment has injected so far
    runs,                \* number of sync_directory calls started
    completed,           \* number of sync_directory calls that ran both loops to the end
    fs0,                 \* the filesystem as it was when the current run started
    verify_result        \* value returned by the last verify_sync call, or "none"

vars == <<fs, source_dir, target_dir, pc, user_consent, source_relative_fps, walk,
          out, err, copy_errors, faults, runs, completed, fs0, verify_result>>

----------------------------------------------------------------------------
(* Bounds of the model.                                                    *)

\* Entries (below the top-level directories) in the initial filesystem.
MaxEntries == 4
\* Entries in the initial filesystem when source and target overlap.
MaxEntriesNested == 2
\* Latest modification time of an initial file, in units of EPSILON.
MaxTime == 2
\* Number of path components the filesystem accepts (PATH_MAX).
PathMax == 4
\* Depth of the deepest initial entry.
InitDepth == 3
\* I/O failures injected into shutil.copy2 over a behaviour.
MaxFaults == 1
\* Calls of sync_directory in a behaviour.
MaxRuns == 2

\* EPSILON = 0.1 s, the unit of time of the model.
EPSILON == 1

Name == {"a", "b"}
Times == 0..MaxTime

----------------------------------------------------------------------------
(* Paths.                                                                  *)

RECURSIVE PathsUpTo(_)
PathsUpTo(n) ==
    IF n = 0 THEN {<<>>}
    ELSE LET shorter == PathsUpTo(n - 1)
         IN  shorter \cup {Append(p, x) : p \in {q \in shorter : Len(q) = n - 1}, x \in Name}

Front(p) == SubSeq(p, 1, Len(p) - 1)
Last(p) == p[Len(p)]

\* Path.parent
Parent(p) == IF p = <<>> THEN <<>> ELSE Front(p)

\* os.path.basename
Basename(p) == Last(p)

IsPrefix(r, p) == Len(r) <= Len(p) /\ SubSeq(p, 1, Len(r)) = r

\* Path.relative_to(root), for a path below root
RelativeTo(p, root) == SubSeq(p, Len(root) + 1, Len(p))

\* root / relative_fp
Join(root, rel) == root \o rel

----------------------------------------------------------------------------
(* The filesystem.  The root <<>> always exists and is a directory.        *)

DirEntry(t) == [kind |-> "dir", mtime |-> t]
FileEntry(t, c) == [kind |-> "file", mtime |-> t, content |-> c]

\* The time at which the program runs: not earlier than any time in the
\* initial filesystem.
Now == MaxTime

\* Path.exists
Exists(f, p) == p = <<>> \/ p \in DOMAIN f

\* Path.is_dir
IsDir(f, p) == p = <<>> \/ (p \in DOMAIN f /\ f[p].kind = "dir")

IsFile(f, p) == p \in DOMAIN f /\ f[p].kind = "file"

\* os.scandir(d): the entries directly in d
Children(f, d) == {p \in DOMAIN f : Len(p) = Len(d) + 1 /\ IsPrefix(d, p)}

\* the entries of d that scandir reports as directories
SubDirs(f, d) == {p \in Children(f, d) : f[p].kind = "dir"}

\* everything at or below p
Subtree(f, p) == {q \in DOMAIN f : IsPrefix(p, q)}

\* the relative paths of everything below root
RelPaths(f, root) == {RelativeTo(q, root) : q \in Subtree(f, root) \ {root}}

Restrict(f, S) == [p \in S |-> f[p]]

\* adding an entry to or removing one from directory d sets the time of d
Touch(f, d) == IF d \in DOMAIN f THEN [f EXCEPT ![d].mtime = Now] ELSE f

\* entry e written at p: a new entry changes the directory it is added to
Put(f, p, e) ==
    LET g == [q \in DOMAIN f \cup {p} |-> IF q = p THEN e ELSE f[q]]
    IN  IF p \in DOMAIN f THEN g ELSE Touch(g, Parent(p))

\* the entries S taken out of directory d
Remove(f, S, d) == Touch(Restrict(f, DOMAIN f \ S), d)

----------------------------------------------------------------------------
(* Library operations the program calls.                                   *)

Raised(f, e) == [fs |-> f, exc |-> e]
Ok(f) == Raised(f, "none")

\* Path.mkdir(parents=True, exist_ok=True)
RECURSIVE Mkdir(_, _)
Mkdir(f, p) ==
    IF Len(p) > PathMax THEN Raised(f, "OSError")               \* ENAMETOOLONG
    ELSE IF Exists(f, p)
         THEN IF IsDir(f, p) THEN Ok(f) ELSE Raised(f, "FileExistsError")
    ELSE IF ~Exists(f, Parent(p))
         THEN LET r == Mkdir(f, Parent(p))                      \* parents=True
              IN  IF r.exc # "none" THEN r ELSE Ok(Put(r.fs, p, DirEntry(Now)))
    ELSE IF ~IsDir(f, Parent(p)) THEN Raised(f, "NotADirectoryError")
    ELSE Ok(Put(f, p, DirEntry(Now)))

\* shutil.rmtree(p): p and everything below it
Rmtree(f, p) == Remove(f, Subtree(f, p), Parent(p))

\* Path.unlink(p)
Unlink(f, p) ==
    IF ~Exists(f, p) THEN Raised(f, "FileNotFoundError")
    ELSE Ok(Remove(f, {p}, Parent(p)))

\* shutil.copy2: a directory as destination receives the file under its own name
Copy2Dst(f, src, dst) == IF IsDir(f, dst) THEN Append(dst, Basename(src)) ELSE dst

\* shutil.copy2(src, dst) when the environment lets every system call succeed:
\* copyfile then copystat
Copy2(f, src, dst) ==
    LET d == Copy2Dst(f, src, dst)
    IN  IF d = src THEN Raised(f, "SameFileError")
        ELSE IF ~IsFile(f, src) THEN Raised(f, "FileNotFoundError")
        ELSE IF Len(d) > PathMax THEN Raised(f, "OSError")      \* ENAMETOOLONG
        ELSE IF IsDir(f, d) THEN Raised(f, "IsADirectoryError")
        ELSE Ok(Put(f, d, FileEntry(f[src].mtime, f[src].content)))

\* shutil.copy2(src, dst) when a system call fails: either before anything is
\* written, or after the content is written and before the timestamps are
\* copied (the file then carries the time it was written at).
Copy2Failing(f, src, dst) ==
    LET d == Copy2Dst(f, src, dst)
    IN  IF Copy2(f, src, dst).exc # "none" THEN {}
        ELSE {Raised(g, e) :
                g \in {f, Put(f, d, FileEntry(Now, f[src].content))},
                e \in {"PermissionError", "OSError"}}

\* the exception classes below OSError
OSErrorClasses ==
    {"OSError", "PermissionError", "FileNotFoundError", "FileExistsError",
     "IsADirectoryError", "NotADirectoryError", "SameFileError"}

\* os.path.getmtime(p)
GetMtime(f, p) == f[p].mtime

----------------------------------------------------------------------------
(* Path.rglob("*"): a lazy generator (pathlib, Python 3.11).  For every    *)
(* directory in pre-order it lists the directory and yields its entries    *)
(* one by one; only when all of them have been consumed does it list the   *)
(* directory again to find the subdirectories to descend into.  The order  *)
(* of a listing is the order of os.scandir, which is arbitrary.            *)

\* the generator before its first next()
NewWalk(root) == [st |-> "new", dir |-> root, cur |-> {}, stack |-> <<>>]

EndWalk == [st |-> "end", dir |-> <<>>, cur |-> {}, stack |-> <<>>]

Exhausted == [y |-> <<>>, w |-> EndWalk]

\* a walker that lists the whole tree when it is started and yields from
\* that list, as list(root.rglob("*")) would
AdvanceSnapshot(w, f) ==
    IF w.st = "end" THEN {Exhausted}
    ELSE LET cur == IF w.st = "new"
                    THEN IF IsDir(f, w.dir) THEN Subtree(f, w.dir) \ {w.dir} ELSE {}
                    ELSE w.cur
         IN  IF cur = {} THEN {Exhausted}
             ELSE {[y |-> <<p>>,
                    w |-> [st |-> "run", dir |-> w.dir, cur |-> cur \ {p},
                           stack |-> <<>>]] : p \in cur}

RECURSIVE Advance(_, _)
RECURSIVE Descend(_, _)

\* next() on the generator: the set of (yielded path, generator afterwards);
\* y is <<p>> when p is yielded and <<>> on StopIteration
Advance(w, f) ==
    IF w.st = "end" THEN {Exhausted}
    ELSE IF w.st = "new"
         THEN IF IsDir(f, w.dir)
              THEN Advance([st |-> "run", dir |-> w.dir, cur |-> Children(f, w.dir),
                            stack |-> <<>>], f)
              ELSE {Exhausted}
    ELSE IF w.cur # {}
         THEN {[y |-> <<p>>, w |-> [w EXCEPT !.cur = @ \ {p}]] : p \in w.cur}
    ELSE Descend(Append(w.stack, SubDirs(f, w.dir)), f)

\* _iterate_directories: the next starting point, depth first
Descend(stack, f) ==
    IF stack = <<>> THEN {Exhausted}
    ELSE IF Last(stack) = {} THEN Descend(Front(stack), f)
    ELSE UNION {Advance([st |-> "run", dir |-> d, cur |-> Children(f, d),
                         stack |-> [stack EXCEPT ![Len(stack)] = @ \ {d}]], f)
                : d \in Last(stack)}

\* list(root.rglob("*")) on a filesystem that does not change: every order
RECURSIVE WalkFrom(_, _)
WalkFrom(w, f) ==
    UNION {IF r.y = <<>> THEN {<<>>}
           ELSE {<<r.y[1]>> \o rest : rest \in WalkFrom(r.w, f)}
           : r \in Advance(w, f)}

WalkOrders(f, root) == WalkFrom(NewWalk(root), f)

----------------------------------------------------------------------------
(* The confirmation prompt.  A line of input is a sequence of characters.  *)

Whitespace == {" ", "\t"}

\* str.strip
RECURSIVE LStrip(_)
LStrip(s) == IF s # <<>> /\ Head(s) \in Whitespace THEN LStrip(Tail(s)) ELSE s

RECURSIVE RStrip(_)
RStrip(s) == IF s # <<>> /\ Last(s) \in Whitespace THEN RStrip(Front(s)) ELSE s

Strip(s) == RStrip(LStrip(s))

LowerChar(c) ==
    CASE c = "Y" -> "y" [] c = "E" -> "e" [] c = "S" -> "s"
      [] c = "N" -> "n" [] c = "O" -> "o" [] OTHER -> c

\* str.lower
Lower(s) == [i \in 1..Len(s) |-> LowerChar(s[i])]

\* mutant: any answer that starts with y is taken for a yes
ConsentsPrefix(s) == Strip(s) # <<>> /\ Lower(Strip(s))[1] = "y"

\* user_consent.strip().lower() in ["y", "yes"]
Consents(s) == Lower(Strip(s)) \in {<<"y">>, <<"y", "e", "s">>}

\* the lines the user may type
Responses ==
    {<<>>, <<"n">>, <<"y">>, <<" ", "Y", "e", "S", "\t">>, <<"y", " ", "e", "s">>}

----------------------------------------------------------------------------
(* sync_directory: the bodies of its two loops.                            *)

Abs(x) == IF x < 0 THEN 0 - x ELSE x

\* mutant: a difference of exactly EPSILON already counts as outdated
IsTargetOutdatedAtEpsilon(ts, tt) == Abs(ts - tt) >= EPSILON

\* abs(os.path.getmtime(source_fp) - os.path.getmtime(target_fp)) > EPSILON,
\* for the times ts and tt read
IsTargetOutdated(ts, tt) == Abs(ts - tt) > EPSILON

\* lines 49-52: "if target_fp.exists(): ... if not is_target_outdated: continue"
SkipsCopy(f, source_fp, target_fp) ==
    /\ Exists(f, target_fp)
    /\ ~IsTargetOutdated(GetMtime(f, source_fp), GetMtime(f, target_fp))

\* "except PermissionError: pass / except OSError: pass" around shutil.copy2
CopyHandlerCatches(e) == e = "PermissionError" \/ e \in OSErrorClasses

\* What one pass through a loop body leaves: the filesystem, the lines
\* printed, the exception that leaves the body (or "none"), the exception
\* the copy handler swallowed (or "none"), and whether the environment
\* made a system call fail.
Result(f, lines, exc, swallowed, fault) ==
    [fs |-> f, lines |-> lines, exc |-> exc, swallowed |-> swallowed, fault |-> fault]

\* lines 54-62: print, create the parent, copy under the handler
CopyFile(f, source_fp, target_fp, relative_fp, mayFail) ==
    LET lines == {<<"Copying", relative_fp>>}
        m == Mkdir(f, Parent(target_fp))
        outcomes == {[c |-> Copy2(m.fs, source_fp, target_fp), fault |-> 0]}
                    \cup (IF mayFail
                          THEN {[c |-> c, fault |-> 1] :
                                  c \in Copy2Failing(m.fs, source_fp, target_fp)}
                          ELSE {})
    IN  IF m.exc # "none" THEN {Result(m.fs, lines, m.exc, "none", 0)}
        ELSE {IF o.c.exc = "none" THEN Result(o.c.fs, lines, "none", "none", o.fault)
              ELSE IF CopyHandlerCatches(o.c.exc)
                   THEN Result(o.c.fs, lines, "none", o.c.exc, o.fault)
              ELSE Result(o.c.fs, lines, o.c.exc, "none", o.fault)
              : o \in outcomes}

\* lines 37-62: the body of "for source_fp in source_dir.rglob('*')"
SyncEntry(f, sdir, tdir, source_fp, mayFail) ==
    LET relative_fp == RelativeTo(source_fp, sdir)
        target_fp == Join(tdir, relative_fp)
    IN  IF IsDir(f, source_fp)
        THEN LET m == Mkdir(f, target_fp)
             IN  {Result(m.fs, {}, m.exc, "none", 0)}
        ELSE IF SkipsCopy(f, source_fp, target_fp)
             THEN {Result(f, {}, "none", "none", 0)}
        ELSE CopyFile(f, source_fp, target_fp, relative_fp, mayFail)

\* mutant: entries are looked up by file name, not by relative path
ShouldDeleteByName(relative_fp, keep) ==
    Basename(relative_fp) \notin {Basename(k) : k \in keep}

\* "if relative_fp not in source_relative_fps"
ShouldDelete(relative_fp, keep) == relative_fp \notin keep

\* lines 66-73: the body of "for fp in target_dir.rglob('*')"
DeleteEntry(f, tdir, fp, keep) ==
    LET relative_fp == RelativeTo(fp, tdir)
    IN  IF ShouldDelete(relative_fp, keep)
        THEN IF IsDir(f, fp)
             THEN Result(Rmtree(f, fp), {<<"Deleting directory", relative_fp>>},
                         "none", "none", 0)
             ELSE LET u == Unlink(f, fp)
                  IN  Result(u.fs, {<<"Deleting file", relative_fp>>}, u.exc, "none", 0)
        ELSE Result(f, {}, "none", "none", 0)

----------------------------------------------------------------------------
(* verify_sync.                                                            *)

Range(s) == {s[i] : i \in 1..Len(s)}

Max(x, y) == IF x > y THEN x ELSE y

\* mutant: zip in place of zip_longest, and no look-up of the target path
\* in the source list
RECURSIVE VerifyLoopZip(_, _, _, _, _, _)
VerifyLoopZip(f, sdir, tdir, rs, rt, i) ==
    IF i > Len(rs) \/ i > Len(rt) THEN TRUE
    ELSE LET rsp == rs[i]
             source_file == Join(sdir, rsp)
             target_file == Join(tdir, rsp)
         IN  IF rsp \notin Range(rt) THEN FALSE
             ELSE IF IsDir(f, source_file) # IsDir(f, target_file) THEN FALSE
             ELSE IF /\ ~IsDir(f, source_file)
                     /\ Abs(f[source_file].mtime - f[target_file].mtime) > EPSILON
                  THEN FALSE
             ELSE VerifyLoopZip(f, sdir, tdir, rs, rt, i + 1)

\* mutant: the target entry compared is the one at the same position of
\* the target walk
RECURSIVE VerifyLoopPositional(_, _, _, _, _, _)
VerifyLoopPositional(f, sdir, tdir, rs, rt, i) ==
    IF i > Max(Len(rs), Len(rt)) THEN TRUE
    ELSE IF i > Len(rs) \/ i > Len(rt) THEN FALSE
    ELSE LET rsp == rs[i]
             rtp == rt[i]
             source_file == Join(sdir, rsp)
             target_file == Join(tdir, rtp)
         IN  IF rsp \notin Range(rt) \/ rtp \notin Range(rs) THEN FALSE
             ELSE IF IsDir(f, source_file) # IsDir(f, target_file) THEN FALSE
             ELSE IF /\ ~IsDir(f, source_file)
                     /\ Abs(f[source_file].mtime - f[target_file].mtime) > EPSILON
                  THEN FALSE
             ELSE VerifyLoopPositional(f, sdir, tdir, rs, rt, i + 1)

\* lines 106-128: the loop over itertools.zip_longest, from position i on
RECURSIVE VerifyLoop(_, _, _, _, _, _)
VerifyLoop(f, sdir, tdir, rs, rt, i) ==
    IF i > Max(Len(rs), Len(rt)) THEN TRUE
    ELSE IF i > Len(rs) \/ i > Len(rt) THEN FALSE          \* None in (rsp, rtp)
    ELSE LET rsp == rs[i]
             rtp == rt[i]
             source_file == Join(sdir, rsp)
             target_file == Join(tdir, rsp)
         IN  IF rsp \notin Range(rt) \/ rtp \notin Range(rs) THEN FALSE
             ELSE IF IsDir(f, source_file) # IsDir(f, target_file) THEN FALSE
             ELSE IF /\ ~IsDir(f, source_file)
                     /\ Abs(f[source_file].mtime - f[target_file].mtime) > EPSILON
                  THEN FALSE
             ELSE VerifyLoop(f, sdir, tdir, rs, rt, i + 1)

\* verify_sync, for the orders ws and wt in which the two walks list the trees
VerifySync(f, sdir, tdir, ws, wt) ==
    LET relative_source_paths == [i \in 1..Len(ws) |-> RelativeTo(ws[i], sdir)]
        relative_target_paths == [i \in 1..Len(wt) |-> RelativeTo(wt[i], tdir)]
    IN  VerifyLoop(f, sdir, tdir, relative_source_paths, relative_target_paths, 1)

----------------------------------------------------------------------------
(* Initial states: the filesystem the program is started on.               *)

HasChild(S, p) == \E q \in S : Len(q) = Len(p) + 1 /\ IsPrefix(p, q)

\* the shapes of an initial filesystem with at most n entries below the
\* top-level directories: sets of paths that hold the parent of each member
RECURSIVE Shapes(_)
Shapes(n) ==
    IF n = 0 THEN SUBSET {p \in PathsUpTo(1) : Len(p) = 1}
    ELSE LET fewer == Shapes(n - 1)
         IN  fewer \cup UNION {{S \cup {Append(p, x)} :
                                   p \in {q \in S : Len(q) < InitDepth}, x \in Name}
                                : S \in fewer}

\* The filesystems of shape S: an inner entry and a top-level entry are
\* directories, any other entry is a directory or a file with some time.
\* The program reads the time of a directory only where source holds a
\* file at the same relative path: such a directory of target starts with
\* any time, every other directory with time 0.
FilesystemsOf(S, sdir, tdir) ==
    LET leaves == {p \in S : Len(p) > 1 /\ ~HasChild(S, p)}
        mirror(p) == Join(sdir, RelativeTo(p, tdir))
        facing == {p \in S : /\ Len(p) > 1
                             /\ IsPrefix(tdir, p) /\ p # tdir
                             /\ mirror(p) \in leaves}
        isFile(choice, p) == p \in leaves /\ choice[p] >= 0
    IN  {[p \in S |-> IF isFile(c.choice, p) THEN FileEntry(c.choice[p], p)
                      ELSE IF p \in facing THEN DirEntry(c.dtime[p])
                      ELSE DirEntry(0)]
         : c \in {d \in [choice : [leaves -> -1..MaxTime], dtime : [facing -> Times]] :
                    \A p \in facing :
                        (isFile(d.choice, p) \/ ~isFile(d.choice, mirror(p)))
                            => d.dtime[p] = 0}}

InitialFilesystems(n, sdir, tdir) ==
    UNION {FilesystemsOf(S, sdir, tdir) : S \in Shapes(n)}

\* the program's state before sync_directory or verify_sync is called
InitProgram ==
    /\ pc = "idle"
    /\ user_consent = <<>>
    /\ source_relative_fps = {}
    /\ walk = EndWalk
    /\ out = {}
    /\ err = "none"
    /\ copy_errors = {}
    /\ faults = 0
    /\ runs = 0
    /\ completed = 0
    /\ fs0 = fs
    /\ verify_result = "none"

\* source and target are two separate directories
Init ==
    /\ source_dir = <<"a">>
    /\ target_dir = <<"b">>
    /\ fs \in InitialFilesystems(MaxEntries, source_dir, target_dir)
    /\ InitProgram

\* target inside source, source inside target, or the same directory
NestedRoots ==
    {<<(<<"a">>), (<<"a", "b">>)>>, <<(<<"b", "a">>), (<<"b">>)>>, <<(<<"a">>), (<<"a">>)>>}

InitNested ==
    /\ \E r \in NestedRoots : source_dir = r[1] /\ target_dir = r[2]
    /\ fs \in InitialFilesystems(MaxEntriesNested, source_dir, target_dir)
    /\ InitProgram

----------------------------------------------------------------------------
(* Actions.                                                                *)

\* a call of sync_directory: the first, or one that follows a call that
\* ran to its end (after a declined call the filesystem is what it was)
MayStart == runs < MaxRuns /\ (pc = "idle" \/ (pc = "done" /\ completed = runs))

\* lines 25-29: sync_directory is called and input() returns a line
Prompt ==
    /\ MayStart
    /\ user_consent' \in Responses
    /\ pc' = "asked"
    /\ runs' = runs + 1
    /\ fs0' = fs
    /\ source_relative_fps' = {}
    /\ out' = {}
    /\ err' = "none"
    /\ copy_errors' = {}
    /\ verify_result' = "none"
    /\ UNCHANGED <<fs, source_dir, target_dir, walk, faults, completed>>

\* lines 30, 33-36: the user consents; the source walk is created
Confirm ==
    /\ pc = "asked"
    /\ Consents(user_consent)
    /\ pc' = "copy"
    /\ walk' = NewWalk(source_dir)
    /\ UNCHANGED <<fs, source_dir, target_dir, user_consent, source_relative_fps, out,
                   err, copy_errors, faults, runs, completed, fs0, verify_result>>

\* lines 30-31: any other answer returns at once
Decline ==
    /\ pc = "asked"
    /\ ~Consents(user_consent)
    /\ pc' = "done"
    /\ user_consent' = <<>>
    /\ UNCHANGED <<fs, source_dir, target_dir, source_relative_fps, walk,
                   out, err, copy_errors, faults, runs, completed, fs0, verify_result>>

\* the state after a loop body that left result r, the walk being at w and
\* the list of relative paths being keep; an exception leaves sync_directory,
\* whose local variables are gone then
AfterBody(r, w, keep) ==
    /\ fs' = r.fs
    /\ out' = out \cup r.lines
    /\ faults' = faults + r.fault
    /\ copy_errors' = IF r.swallowed = "none" THEN copy_errors
                      ELSE copy_errors \cup {r.swallowed}
    /\ err' = r.exc
    /\ IF r.exc = "none"
       THEN /\ pc' = pc
            /\ walk' = w
            /\ source_relative_fps' = keep
            /\ user_consent' = user_consent
       ELSE /\ pc' = "raised"
            /\ walk' = EndWalk
            /\ source_relative_fps' = {}
            /\ user_consent' = <<>>
    /\ UNCHANGED <<source_dir, target_dir, runs, completed, fs0, verify_result>>

\* a keep list that records an entry under its last name only
AppendedByName(keep, sdir, source_fp) == keep \cup {<<Basename(source_fp)>>}

\* a keep list that records files only
AppendedFilesOnly(keep, sdir, source_fp) ==
    IF source_fp \in DOMAIN fs /\ fs[source_fp].kind = "dir" THEN keep
    ELSE keep \cup {RelativeTo(source_fp, sdir)}

\* lines 38, 41: source_relative_fps.append(source_fp.relative_to(source_dir))
Appended(keep, sdir, source_fp) == keep \cup {RelativeTo(source_fp, sdir)}

\* lines 36-62: one iteration of the loop over the source walk
CopyLoop ==
    /\ pc = "copy"
    /\ \E n \in Advance(walk, fs) :
          /\ n.y # <<>>
          /\ \E r \in SyncEntry(fs, source_dir, target_dir, n.y[1], faults < MaxFaults) :
                AfterBody(r, n.w, Appended(source_relative_fps, source_dir, n.y[1]))

\* lines 36, 65: the source walk is exhausted; the target walk is created
CopyLoopEnd ==
    /\ pc = "copy"
    /\ \E n \in Advance(walk, fs) : n.y = <<>>
    /\ pc' = "delete"
    /\ walk' = NewWalk(target_dir)
    /\ UNCHANGED <<fs, source_dir, target_dir, user_consent, source_relative_fps, out,
                   err, copy_errors, faults, runs, completed, fs0, verify_result>>

\* lines 65-73: one iteration of the loop over the target walk
DeleteLoop ==
    /\ pc = "delete"
    /\ \E n \in Advance(walk, fs) :
          /\ n.y # <<>>
          /\ AfterBody(DeleteEntry(fs, target_dir, n.y[1], source_relative_fps), n.w,
                       source_relative_fps)

\* line 65: the target walk is exhausted; sync_directory returns
DeleteLoopEnd ==
    /\ pc = "delete"
    /\ \E n \in Advance(walk, fs) : n.y = <<>>
    /\ pc' = "done"
    /\ walk' = EndWalk
    /\ source_relative_fps' = {}
    /\ user_consent' = <<>>
    /\ completed' = completed + 1
    /\ UNCHANGED <<fs, source_dir, target_dir, out, err, copy_errors, faults, runs, fs0,
                   verify_result>>

\* print(bool)
Printed(b) == IF b THEN "True" ELSE "False"

\* lines 156-157: the program is run with -V
Verify ==
    /\ pc \in {"idle", "done", "raised"}
    /\ verify_result = "none"
    /\ \E ws \in WalkOrders(fs, source_dir), wt \in WalkOrders(fs, target_dir) :
          verify_result' = Printed(VerifySync(fs, source_dir, target_dir, ws, wt))
    /\ UNCHANGED <<fs, source_dir, target_dir, pc, user_consent, source_relative_fps,
                   walk, out, err, copy_errors, faults, runs, completed, fs0>>

Next ==
    \/ Prompt
    \/ Confirm
    \/ Decline
    \/ CopyLoop
    \/ CopyLoopEnd
    \/ DeleteLoop
    \/ DeleteLoopEnd
    \/ Verify

Spec == Init /\ [][Next]_vars

SpecNested == InitNested /\ [][Next]_vars

\* rglob never lists a directory that has been removed
WalkDirExists == walk.st = "run" => IsDir(fs, walk.dir)

TypeOK ==
    /\ pc \in {"idle", "asked", "copy", "delete", "done", "raised"}
    /\ \A p \in DOMAIN fs : Len(p) \in 1..PathMax /\ IsDir(fs, Parent(p))
    /\ faults \in 0..MaxFaults
    /\ runs \in 0..MaxRuns
    /\ verify_result \in {"none", "True", "False"}

----------------------------------------------------------------------------
(* Vocabulary of the properties.                                           *)

\* the last call of sync_directory had consent and returned without raising
Returned == pc = "done" /\ runs >= 1 /\ completed = runs

\* the relative paths below source and target
SourcePaths(f) == RelPaths(f, source_dir)
TargetPaths(f) == RelPaths(f, target_dir)

SourceAt(p) == Join(source_dir, p)
TargetAt(p) == Join(target_dir, p)

\* two files whose times agree within the tolerance
TimesAgree(f, p, q) == Abs(f[p].mtime - f[q].mtime) <= EPSILON

\* the trees are in sync: same relative paths, same kinds, file times
\* within the tolerance
InSync(f) ==
    /\ SourcePaths(f) = TargetPaths(f)
    /\ \A p \in SourcePaths(f) :
          /\ IsDir(f, SourceAt(p)) = IsDir(f, TargetAt(p))
          /\ IsFile(f, SourceAt(p)) => TimesAgree(f, SourceAt(p), TargetAt(p))

\* C1: after a sync that had consent and returned without raising (and in
\* which no system call failed), verify_sync on the resulting filesystem
\* returns True.
C1_Convergence ==
    (Returned /\ faults = 0 /\ verify_result # "none") => verify_result = "True"

\* C2: every relative path that was in target and not in source when the
\* sync started is gone from target when the sync has finished.
C2_DeletionCompleteness ==
    Returned =>
        \A p \in TargetPaths(fs0) \ SourcePaths(fs0) : ~Exists(fs, TargetAt(p))

\* a sync has finished that had to remove a directory with an entry in it,
\* neither of them in source, and printed the removal of the directory
C2_Witness ==
    /\ Returned
    /\ \E p \in TargetPaths(fs0) \ SourcePaths(fs0) :
          /\ <<"Deleting directory", p>> \in out
          /\ \E q \in TargetPaths(fs0) \ SourcePaths(fs0) : q # p /\ IsPrefix(p, q)
    /\ \E p \in TargetPaths(fs0) \ SourcePaths(fs0) : <<"Deleting file", p>> \in out

\* a source file that sync has to copy: absent from target, or a file
\* there whose time differs by more than the tolerance
NeedsCopy(f, p) ==
    /\ IsFile(f, SourceAt(p))
    /\ \/ ~Exists(f, TargetAt(p))
       \/ IsFile(f, TargetAt(p)) /\ ~TimesAgree(f, SourceAt(p), TargetAt(p))

\* the target holds a copy of source file p
IsCopied(f, p) ==
    /\ IsFile(f, TargetAt(p))
    /\ f[TargetAt(p)].content = f[SourceAt(p)].content
    /\ TimesAgree(f, SourceAt(p), TargetAt(p))

\* C3: every source file that was absent from target or outdated there is,
\* when the sync has finished (no error of the permission class having
\* occurred), a file in target with the source's content and a time within
\* the tolerance.
C3_CopySufficiency ==
    (Returned /\ "PermissionError" \notin copy_errors) =>
        \A p \in SourcePaths(fs0) : NeedsCopy(fs0, p) => IsCopied(fs, p)

\* a file in both trees whose times agree within the tolerance
UpToDate(f, p) ==
    /\ IsFile(f, SourceAt(p))
    /\ IsFile(f, TargetAt(p))
    /\ TimesAgree(f, SourceAt(p), TargetAt(p))

\* C4: a file that is in both trees with times within the tolerance when
\* the sync starts is never copied, and its target keeps content and time
\* in every state of the run.
C4_CopyNecessity ==
    runs >= 1 =>
        \A p \in SourcePaths(fs0) :
            UpToDate(fs0, p) =>
                /\ <<"Copying", p>> \notin out
                /\ IsFile(fs, TargetAt(p))
                /\ fs[TargetAt(p)] = fs0[TargetAt(p)]

\* a sync has finished on trees with an up-to-date file whose target was
\* older by exactly the tolerance and one whose target was newer by it
C4_Witness ==
    /\ Returned
    /\ \E p, q \in SourcePaths(fs0) :
          /\ UpToDate(fs0, p) /\ UpToDate(fs0, q)
          /\ fs0[SourceAt(p)].mtime = fs0[TargetAt(p)].mtime + EPSILON
          /\ fs0[SourceAt(q)].mtime + EPSILON = fs0[TargetAt(q)].mtime

\* C5: a second sync that follows a finished sync prints no copy and no
\* deletion and leaves the filesystem as the first left it (no system call
\* failing in either).
C5_Idempotence ==
    (Returned /\ runs = 2 /\ faults = 0) => (out = {} /\ fs = fs0)

\* C6: verify_sync returns False whenever the relative paths of source and
\* target differ.
C6_SymmetricMismatch ==
    (verify_result # "none" /\ SourcePaths(fs) # TargetPaths(fs)) =>
        verify_result = "False"

\* verify_sync has returned False on trees where target has exactly one
\* entry more than source and every other path agrees in kind and time
C6_Witness ==
    /\ verify_result = "False"
    /\ SourcePaths(fs) # {}
    /\ \E x \in TargetPaths(fs) : TargetPaths(fs) \ {x} = SourcePaths(fs)
    /\ \A p \in SourcePaths(fs) :
          /\ IsDir(fs, SourceAt(p)) = IsDir(fs, TargetAt(p))
          /\ IsFile(fs, SourceAt(p)) => TimesAgree(fs, SourceAt(p), TargetAt(p))

\* C7: whatever the orders in which the two walks list the trees, the value
\* verify_sync returns is that of the set-based predicate InSync.
C7_VerifyIsSetBased ==
    verify_result # "none" => verify_result = Printed(InSync(fs))

\* verify_sync has returned True on trees that hold files and directories
\* and that the walks may list in several orders
C7_Witness ==
    /\ verify_result = "True"
    /\ Cardinality(WalkOrders(fs, source_dir)) > 1
    /\ \E p, q \in SourcePaths(fs) : IsFile(fs, SourceAt(p)) /\ IsDir(fs, SourceAt(q))

\* the answers the prompt accepts
Accepted(s) == Lower(Strip(s)) \in {<<"y">>, <<"y", "e", "s">>}

\* C8: the filesystem changes only in a run whose answer, trimmed and
\* lower-cased, is y or yes; after any other answer sync_directory returns
\* without an error and with the filesystem as it was.
C8_ConfirmationGate ==
    [][/\ fs' # fs => (pc \in {"copy", "delete"} /\ Accepted(user_consent))
       /\ pc' \in {"copy", "delete"} => Accepted(user_consent')
       /\ (pc = "asked" /\ ~Accepted(user_consent)) =>
             (pc' = "done" /\ err' = "none" /\ fs' = fs0 /\ completed' = completed)]_vars

\* sync_directory has returned after a declined prompt, on trees that a
\* sync would have changed
C8_Witness ==
    /\ pc = "done" /\ runs = 1 /\ completed = 0
    /\ err = "none" /\ fs = fs0 /\ out = {}
    /\ TargetPaths(fs) \ SourcePaths(fs) # {}
    /\ SourcePaths(fs) \ TargetPaths(fs) # {}

\* the entries at and below the source directory
SourceTree(f) == Restrict(f, Subtree(f, source_dir))

\* C9: no step of sync_directory creates, changes or removes an entry
\* under source.
C9_SourceUntouched == SourceTree(fs) = SourceTree(fs0)

\* C10: an error that shutil.copy2 raised and that the sync went on from
\* is of the permission class.
C10_OnlyPermissionSwallowed == \A e \in copy_errors : e = "PermissionError"

\* sync_directory is past an accepted prompt: in a loop, raised or returned
InConsentedRun == pc \in {"copy", "delete", "raised"} \/ Returned

\* a root of the run in progress did not exist when sync_directory was called
MissingRoot == ~Exists(fs0, source_dir) \/ ~Exists(fs0, target_dir)

\* C11: a sync whose source root or target root does not exist when it is
\* walked fails with a not-found error: it never reaches the deletion loop,
\* never returns normally, and removes no entry of the target.
C11_MissingRootAborts ==
    (InConsentedRun /\ MissingRoot) =>
        /\ pc # "delete"
        /\ ~Returned
        /\ TargetPaths(fs0) \subseteq TargetPaths(fs)
        /\ pc = "raised" => err = "FileNotFoundError"

\* C12: in the deletion loop the target walk never yields a path that no
\* longer exists, whatever the order of enumeration, so no unlink or rmtree
\* is attempted on an entry that went with an ancestor's recursive deletion,
\* and no not-found error is raised.
C12_DeletionGuard ==
    /\ err # "FileNotFoundError"
    /\ pc = "delete" =>
          \A n \in Advance(walk, fs) : n.y # <<>> => n.y[1] \in DOMAIN fs

\* the deletion loop has removed a directory together with its entries and
\* the target walk goes on
C12_Witness ==
    /\ pc = "delete"
    /\ \E d \in TargetPaths(fs0) :
          /\ <<"Deleting directory", d>> \in out
          /\ Children(fs0, TargetAt(d)) # {}
    /\ \E n \in Advance(walk, fs) : n.y # <<>>

\* the "Copying" lines among printed lines
CopyingLines(lines) == {l \in lines : l[1] = "Copying"}

\* the "Deleting ..." lines among printed lines
DeletingLines(lines) == lines \ CopyingLines(lines)

\* C13: entries are removed only in the deletion loop, which starts when
\* the source walk is exhausted; the deletion loop creates and copies
\* nothing; its keep list is the set of relative paths of the source walk
\* of the same run and does not change while the loop runs; nothing is
\* deleted while the source loop runs.
C13_PhaseOrdering ==
    [][/\ DOMAIN fs \ DOMAIN fs' # {} => pc = "delete"
       /\ pc = "delete" =>
             /\ DOMAIN fs' \subseteq DOMAIN fs
             /\ CopyingLines(out') = CopyingLines(out)
             /\ source_relative_fps = SourcePaths(fs0)
             /\ source_relative_fps = SourcePaths(fs)
             /\ pc' = "delete" => source_relative_fps' = source_relative_fps
       /\ pc = "copy" => DeletingLines(out') = {}]_vars

\* the deletion loop is running after a source loop that created a
\* directory and copied a file below the top level, and it has deleted
\* an entry
C13_Witness ==
    /\ pc = "delete"
    /\ \E l \in CopyingLines(out) : Len(l[2]) > 1
    /\ DeletingLines(out) # {}
    /\ \E d \in TargetPaths(fs) \ TargetPaths(fs0) : IsDir(fs, TargetAt(d))

\* the directories of the source tree, as relative paths
SourceDirs(f) == {d \in SourcePaths(f) : IsDir(f, SourceAt(d))}

\* C14: for a directory d of source, the directory step raises no error
\* when target/d is already there, as a directory or as a file, and after
\* a sync that finished target/d is a directory.
C14_DirectoryMirroring ==
    /\ (InConsentedRun /\ pc = "raised") => err # "FileExistsError"
    /\ Returned => \A d \in SourceDirs(fs0) : IsDir(fs, TargetAt(d))

\* a set of relative paths that holds the parent of each of its members
ParentClosed(S) == \A k \in S : Len(k) > 1 => Front(k) \in S

\* C15: for disjoint source and target, the keep list of the deletion loop
\* holds the parent of each of its paths, and no step of the deletion loop,
\* a recursive removal included, removes a target entry whose relative path
\* is in the keep list.
C15_KeptEntriesSurvive ==
    [][pc = "delete" =>
          /\ ParentClosed(source_relative_fps)
          /\ \A p \in TargetPaths(fs) \cap source_relative_fps :
                TargetAt(p) \in DOMAIN fs']_vars

\* a sync has returned whose deletion loop removed a directory inside a
\* kept directory, next to a kept entry that is still there
C15_Witness ==
    /\ Returned
    /\ \E l \in out :
          /\ l[1] = "Deleting directory"
          /\ Len(l[2]) >= 2
          /\ \E k \in SourcePaths(fs0) \cap TargetPaths(fs) :
                Len(k) >= 2 /\ Front(k) = Front(l[2])

====
